---- MODULE Spec2Model ----
(***************************************************************************)
(* Model of the consent-gated profile store (profiles_consent_service.py), *)
(* the check-in / escalation tracker (checkin_service.py) and the audit    *)
(* log they share (audit_log.py).                                          *)
(*                                                                         *)
(* Every public method is one action.  The value a call hands back (or the *)
(* exception it raises) is kept in the variable ret, so that properties    *)
(* can speak about what a call returned.                                   *)
(*                                                                         *)
(* Timestamps are integers counting ticks; one minute is TicksPerMinute    *)
(* ticks, so that instants strictly between two whole minutes exist.       *)
(* Wall-clock stamps that the code writes but never reads (granted_at of a *)
(* ConsentRecord, the timestamp prefix of an audit entry) are left out.    *)
(***************************************************************************)
EXTENDS Integers, Sequences, FiniteSets, TLC

\* ---------------------------------------------------------------- bounds
MaxAudit == 4
MaxConsents == 2
MaxTime == 3
MaxMinutes == 1

\* ------------------------------------------------------------ input sets
TicksPerMinute == 2
Users == {"elder-1", "elder-2"}
Roles == {"caregiver", "doctor"}
\* (name, age) of the profiles registered
ProfileInputs == {<<"Ann", 70>>, <<"Bob", 71>>}
Contacts == {"cg-1", "cg-2"}
\* allowed_fields of the grants tried; "email" is not a Profile attribute, and
\* {"name", "age", "email"} arises as the union of two grants.
GrantSets == {{"age"}, {"name", "email"}}
\* The tracker is exercised for one user at a time.
CheckInUsers == {"elder-1"}
Time == 0..MaxTime
Minutes == 0..MaxMinutes

\* Optional[datetime]: None is a value outside Time.
None == -1

\* The exception a dict lookup of a missing key raises (Python KeyError).
NotFound == "KeyError"

\* th holds, for every request thread, the call it is executing: its
\* arguments, the line it is at and its local variables.
VARIABLES profiles, consents, prefs, state, escalations, audit, ret, th

vars == <<profiles, consents, prefs, state, escalations, audit, ret, th>>

\* ------------------------------------------------------- dict primitives
\* d[k] = v
Put(d, k, v) == [x \in (DOMAIN d) \cup {k} |-> IF x = k THEN v ELSE d[x]]

\* d.setdefault(k, v), as the dict after the call
SetDefault(d, k, v) == IF k \in DOMAIN d THEN d ELSE Put(d, k, v)

EmptyDict == [x \in {} |-> None]

\* ------------------------------------------------------------ audit log
\* AuditLogger.log: the entry is "<ts> actor=.. action=.." and, only when
\* details is non-empty, " details=..".  details is a tuple, <<>> if empty.
Log(entries, actor, action, details) ==
    Append(entries, [actor |-> actor, action |-> action, details |-> details])

\* ------------------------------------------------------- data structures
Profile(user_id, name, age) == [user_id |-> user_id, name |-> name, age |-> age]

ConsentRecord(user_id, viewer_role, allowed_fields) ==
    [user_id |-> user_id, viewer_role |-> viewer_role, allowed_fields |-> allowed_fields]

CaregiverPrefs(user_id, caregiver_contact, escalate_after_minutes) ==
    [user_id |-> user_id, caregiver_contact |-> caregiver_contact,
     escalate_after_minutes |-> escalate_after_minutes]

CheckInState(user_id) == [user_id |-> user_id, last_prompt |-> None, last_response |-> None]

\* timedelta(minutes=m), in ticks
timedelta(m) == m * TicksPerMinute

\* The request threads of the server's worker pool.
Threads == {1, 2}

\* A thread that is not executing a call.
IdleThread ==
    [pc |-> "idle", op |-> "none", user_id |-> "", now |-> None,
     caregiver_contact |-> "", escalate_after_minutes |-> 0,
     has_prefs |-> FALSE, p_contact |-> "", p_minutes |-> 0,
     tmp |-> None, escalate |-> FALSE]

Init ==
    /\ th = [t \in Threads |-> IdleThread]
    /\ profiles = EmptyDict
    /\ consents = <<>>
    /\ prefs = EmptyDict
    /\ state = EmptyDict
    /\ escalations = <<>>
    /\ audit = <<>>
    /\ ret = [op |-> "none"]

\* ------------------------------------------------- ProfilesConsentStore
add_profile(user_id, name, age) ==
    /\ Len(audit) < MaxAudit
    /\ profiles' = Put(profiles, user_id, Profile(user_id, name, age))
    /\ audit' = Log(audit, user_id, "profile_create", <<>>)
    /\ ret' = [op |-> "add_profile", user_id |-> user_id, status |-> "ok"]
    /\ UNCHANGED <<consents, prefs, state, escalations, th>>

\* Variant: a grant replaces the records granted earlier to the same
\* (user, role).
grant_consent_Replace(user_id, viewer_role, allowed_fields) ==
    /\ Len(audit) < MaxAudit
    /\ Len(consents) < MaxConsents
    /\ LET other(c) == ~ (c.user_id = user_id /\ c.viewer_role = viewer_role)
       IN consents' = Append(SelectSeq(consents, other),
                             ConsentRecord(user_id, viewer_role, allowed_fields))
    /\ audit' = Log(audit, user_id, "consent_grant", <<viewer_role>>)
    /\ ret' = [op |-> "grant_consent", user_id |-> user_id, viewer_role |-> viewer_role,
               status |-> "ok"]
    /\ UNCHANGED <<profiles, prefs, state, escalations, th>>

\* Variant: a grant for a user without a profile is refused.
grant_consent_RequiresProfile(user_id, viewer_role, allowed_fields) ==
    IF user_id \notin DOMAIN profiles
    THEN /\ ret' = [op |-> "grant_consent", user_id |-> user_id,
                    viewer_role |-> viewer_role, status |-> NotFound]
         /\ UNCHANGED <<profiles, consents, prefs, state, escalations, audit, th>>
    ELSE /\ Len(audit) < MaxAudit
         /\ Len(consents) < MaxConsents
         /\ consents' = Append(consents, ConsentRecord(user_id, viewer_role, allowed_fields))
         /\ audit' = Log(audit, user_id, "consent_grant", <<viewer_role>>)
         /\ ret' = [op |-> "grant_consent", user_id |-> user_id,
                    viewer_role |-> viewer_role, status |-> "ok"]
         /\ UNCHANGED <<profiles, prefs, state, escalations, th>>

grant_consent(user_id, viewer_role, allowed_fields) ==
    /\ Len(audit) < MaxAudit
    /\ Len(consents) < MaxConsents
    /\ consents' = Append(consents, ConsentRecord(user_id, viewer_role, allowed_fields))
    /\ audit' = Log(audit, user_id, "consent_grant", <<viewer_role>>)
    /\ ret' = [op |-> "grant_consent", user_id |-> user_id, viewer_role |-> viewer_role,
               status |-> "ok"]
    /\ UNCHANGED <<profiles, prefs, state, escalations, th>>

\* The loop of _get_allowed_fields over the first n consent records.
RECURSIVE AllowedUpTo(_, _, _, _)
AllowedUpTo(cs, n, user_id, role) ==
    IF n = 0 THEN {}
    ELSE LET fields == AllowedUpTo(cs, n - 1, user_id, role)
             c == cs[n]
         IN IF c.user_id = user_id /\ c.viewer_role = role
            THEN fields \cup c.allowed_fields
            ELSE fields

\* Variant: the role of a record is not compared.
get_allowed_fields_AnyRole(cs, user_id, role) ==
    UNION {cs[i].allowed_fields : i \in {j \in 1..Len(cs) : cs[j].user_id = user_id}}

\* Variant: a matching record replaces what earlier records granted.
get_allowed_fields_LastWins(cs, user_id, role) ==
    LET match == {j \in 1..Len(cs) : cs[j].user_id = user_id /\ cs[j].viewer_role = role}
    IN IF match = {} THEN {}
       ELSE cs[CHOOSE j \in match : \A k \in match : k <= j].allowed_fields

_get_allowed_fields(cs, user_id, role) == AllowedUpTo(cs, Len(cs), user_id, role)

\* Variant: the attributes are visited in the opposite order.
ProfileFieldOrder_Reversed == <<"age", "name">>

\* The order in which view_profile visits the profile attributes.
ProfileFieldOrder == <<"name", "age">>

\* The loop of view_profile over the first n attribute names: the result
\* dict as the sequence of its (key, value) items in insertion order.
RECURSIVE ViewItems(_, _, _)
ViewItems(profile, allowed, n) ==
    IF n = 0 THEN <<>>
    ELSE LET result == ViewItems(profile, allowed, n - 1)
             field_name == ProfileFieldOrder[n]
         IN IF field_name \in allowed
            THEN Append(result, <<field_name, profile[field_name]>>)
            ELSE result

\* Variant: the view is logged before the profile is looked up.
view_profile_LogFirst(user_id, role) ==
    /\ Len(audit) < MaxAudit
    /\ audit' = Log(audit, role, "profile_view", <<"user_id=", user_id>>)
    /\ IF user_id \notin DOMAIN profiles
       THEN ret' = [op |-> "view_profile", user_id |-> user_id, role |-> role,
                    status |-> NotFound]
       ELSE ret' = [op |-> "view_profile", user_id |-> user_id, role |-> role,
                    status |-> "ok",
                    fields |-> ViewItems(profiles[user_id],
                                         _get_allowed_fields(consents, user_id, role),
                                         Len(ProfileFieldOrder))]
    /\ UNCHANGED <<profiles, consents, prefs, state, escalations, th>>

view_profile(user_id, role) ==
    IF user_id \notin DOMAIN profiles
    THEN \* self.profiles[user_id] raises before anything is touched
         /\ ret' = [op |-> "view_profile", user_id |-> user_id, role |-> role,
                    status |-> NotFound]
         /\ UNCHANGED <<profiles, consents, prefs, state, escalations, audit, th>>
    ELSE /\ Len(audit) < MaxAudit
         /\ LET profile == profiles[user_id]
                allowed == _get_allowed_fields(consents, user_id, role)
            IN ret' = [op |-> "view_profile", user_id |-> user_id, role |-> role,
                       status |-> "ok",
                       fields |-> ViewItems(profile, allowed, Len(ProfileFieldOrder))]
         /\ audit' = Log(audit, role, "profile_view", <<"user_id=", user_id>>)
         /\ UNCHANGED <<profiles, consents, prefs, state, escalations, th>>

\* --------------------------------------------------------- CheckInService
\* Variant: registering prefs starts the user's check-in state afresh.
set_prefs_ResetState(user_id, caregiver_contact, escalate_after_minutes) ==
    /\ Len(audit) < MaxAudit
    /\ prefs' = Put(prefs, user_id,
                    CaregiverPrefs(user_id, caregiver_contact, escalate_after_minutes))
    /\ state' = Put(state, user_id, CheckInState(user_id))
    /\ audit' = Log(audit, user_id, "checkin_set_prefs", <<>>)
    /\ ret' = [op |-> "set_prefs", user_id |-> user_id,
               caregiver_contact |-> caregiver_contact,
               escalate_after_minutes |-> escalate_after_minutes, status |-> "ok"]
    /\ UNCHANGED <<profiles, consents, escalations, th>>

set_prefs(user_id, caregiver_contact, escalate_after_minutes) ==
    /\ Len(audit) < MaxAudit
    /\ prefs' = Put(prefs, user_id,
                    CaregiverPrefs(user_id, caregiver_contact, escalate_after_minutes))
    /\ state' = SetDefault(state, user_id, CheckInState(user_id))
    /\ audit' = Log(audit, user_id, "checkin_set_prefs", <<>>)
    /\ ret' = [op |-> "set_prefs", user_id |-> user_id,
               caregiver_contact |-> caregiver_contact,
               escalate_after_minutes |-> escalate_after_minutes, status |-> "ok"]
    /\ UNCHANGED <<profiles, consents, escalations, th>>

\* Variant: a new prompt also forgets the response.
send_prompt_ClearResponse(user_id, now) ==
    /\ Len(audit) < MaxAudit
    /\ state' = Put(state, user_id,
                    [CheckInState(user_id) EXCEPT !.last_prompt = now])
    /\ audit' = Log(audit, user_id, "checkin_prompt_sent", <<>>)
    /\ ret' = [op |-> "send_prompt", user_id |-> user_id, now |-> now, status |-> "ok"]
    /\ UNCHANGED <<profiles, consents, prefs, escalations, th>>

send_prompt(user_id, now) ==
    /\ Len(audit) < MaxAudit
    /\ LET d == SetDefault(state, user_id, CheckInState(user_id))
       IN state' = Put(d, user_id, [d[user_id] EXCEPT !.last_prompt = now])
    /\ audit' = Log(audit, user_id, "checkin_prompt_sent", <<>>)
    /\ ret' = [op |-> "send_prompt", user_id |-> user_id, now |-> now, status |-> "ok"]
    /\ UNCHANGED <<profiles, consents, prefs, escalations, th>>

\* Variant: the response is stored without an audit entry.
record_response_NoLog(user_id, now) ==
    /\ LET d == SetDefault(state, user_id, CheckInState(user_id))
       IN state' = Put(d, user_id, [d[user_id] EXCEPT !.last_response = now])
    /\ ret' = [op |-> "record_response", user_id |-> user_id, now |-> now, status |-> "ok"]
    /\ UNCHANGED <<profiles, consents, prefs, escalations, audit, th>>

record_response(user_id, now) ==
    /\ Len(audit) < MaxAudit
    /\ LET d == SetDefault(state, user_id, CheckInState(user_id))
       IN state' = Put(d, user_id, [d[user_id] EXCEPT !.last_response = now])
    /\ audit' = Log(audit, user_id, "checkin_response_received", <<>>)
    /\ ret' = [op |-> "record_response", user_id |-> user_id, now |-> now, status |-> "ok"]
    /\ UNCHANGED <<profiles, consents, prefs, escalations, th>>

\* Variant: the threshold comparison is strict.
ShouldEscalate_Strict(ps, user_id, st, now) ==
    /\ user_id \in DOMAIN ps
    /\ st.last_prompt # None
    /\ (st.last_response = None \/ st.last_response < st.last_prompt)
    /\ now - st.last_prompt > timedelta(ps[user_id].escalate_after_minutes)

\* Variant: the response is not consulted.
ShouldEscalate_IgnoreResponse(ps, user_id, st, now) ==
    /\ user_id \in DOMAIN ps
    /\ st.last_prompt # None
    /\ now - st.last_prompt >= timedelta(ps[user_id].escalate_after_minutes)

\* Variant: any recorded response counts as an answer.
ShouldEscalate_AnyResponseClears(ps, user_id, st, now) ==
    /\ user_id \in DOMAIN ps
    /\ st.last_prompt # None
    /\ st.last_response = None
    /\ now - st.last_prompt >= timedelta(ps[user_id].escalate_after_minutes)

\* Variant: last_prompt is not required to be set.
ShouldEscalate_NoPromptCheck(ps, user_id, st, now) ==
    /\ user_id \in DOMAIN ps
    /\ (st.last_response = None \/ st.last_response < st.last_prompt)
    /\ now - st.last_prompt >= timedelta(ps[user_id].escalate_after_minutes)

\* Variant: a response with the prompt's own timestamp does not answer it.
ShouldEscalate_ResponseLeq(ps, user_id, st, now) ==
    /\ user_id \in DOMAIN ps
    /\ st.last_prompt # None
    /\ (st.last_response = None \/ st.last_response <= st.last_prompt)
    /\ now - st.last_prompt >= timedelta(ps[user_id].escalate_after_minutes)

\* The two nested ifs of evaluate_escalation.  ps is self.prefs, whose get()
\* yields None (falsy) for an absent user; st is the user's CheckInState.
ShouldEscalate(ps, user_id, st, now) ==
    /\ user_id \in DOMAIN ps
    /\ st.last_prompt # None
    /\ (st.last_response = None \/ st.last_response < st.last_prompt)
    /\ now - st.last_prompt >= timedelta(ps[user_id].escalate_after_minutes)

\* f"Escalate for {user_id} to {caregiver_contact} at {now.isoformat()}"
EscalationMsg(user_id, caregiver_contact, now) == <<user_id, caregiver_contact, now>>

\* Variant: a message is appended only while the list holds no escalation
\* for the user yet.
evaluate_escalation_Dedup(user_id, now) ==
    LET d == SetDefault(state, user_id, CheckInState(user_id))
        st == d[user_id]
        escalate == ShouldEscalate(prefs, user_id, st, now)
        fresh == \A i \in 1..Len(escalations) : escalations[i][1] # user_id
    IN /\ state' = d
       /\ IF escalate /\ fresh
          THEN LET msg == EscalationMsg(user_id, prefs[user_id].caregiver_contact, now)
               IN /\ Len(audit) < MaxAudit
                  /\ escalations' = Append(escalations, msg)
                  /\ audit' = Log(audit, user_id, "checkin_escalation", <<msg>>)
          ELSE UNCHANGED <<escalations, audit>>
       /\ ret' = [op |-> "evaluate_escalation", user_id |-> user_id, now |-> now,
                  status |-> "ok",
                  last_prompt |-> st.last_prompt,
                  last_response |-> st.last_response,
                  escalation_needed |-> escalate]
       /\ UNCHANGED <<profiles, consents, prefs, th>>

\* Variant: the prefs are looked up with self.prefs[user_id], which raises
\* for a user without prefs.
evaluate_escalation_PrefsRequired(user_id, now) ==
    LET d == SetDefault(state, user_id, CheckInState(user_id))
        st == d[user_id]
        escalate == ShouldEscalate(prefs, user_id, st, now)
    IN /\ state' = d
       /\ IF escalate
          THEN LET msg == EscalationMsg(user_id, prefs[user_id].caregiver_contact, now)
               IN /\ Len(audit) < MaxAudit
                  /\ escalations' = Append(escalations, msg)
                  /\ audit' = Log(audit, user_id, "checkin_escalation", <<msg>>)
          ELSE UNCHANGED <<escalations, audit>>
       /\ ret' = [op |-> "evaluate_escalation", user_id |-> user_id, now |-> now,
                  status |-> IF user_id \in DOMAIN prefs THEN "ok" ELSE NotFound,
                  last_prompt |-> st.last_prompt,
                  last_response |-> st.last_response,
                  escalation_needed |-> escalate]
       /\ UNCHANGED <<profiles, consents, prefs, th>>

\* Variant: once an escalation was recorded for the user, every later
\* evaluation reports escalation_needed.
evaluate_escalation_Sticky(user_id, now) ==
    LET d == SetDefault(state, user_id, CheckInState(user_id))
        st == d[user_id]
        escalate == ShouldEscalate(prefs, user_id, st, now)
        before == \E i \in 1..Len(escalations) : escalations[i][1] = user_id
    IN /\ state' = d
       /\ IF escalate
          THEN LET msg == EscalationMsg(user_id, prefs[user_id].caregiver_contact, now)
               IN /\ Len(audit) < MaxAudit
                  /\ escalations' = Append(escalations, msg)
                  /\ audit' = Log(audit, user_id, "checkin_escalation", <<msg>>)
          ELSE UNCHANGED <<escalations, audit>>
       /\ ret' = [op |-> "evaluate_escalation", user_id |-> user_id, now |-> now,
                  status |-> "ok",
                  last_prompt |-> st.last_prompt,
                  last_response |-> st.last_response,
                  escalation_needed |-> escalate \/ before]
       /\ UNCHANGED <<profiles, consents, prefs, th>>

evaluate_escalation(user_id, now) ==
    LET d == SetDefault(state, user_id, CheckInState(user_id))
        st == d[user_id]
        escalate == ShouldEscalate(prefs, user_id, st, now)
    IN /\ state' = d
       /\ IF escalate
          THEN LET msg == EscalationMsg(user_id, prefs[user_id].caregiver_contact, now)
               IN /\ Len(audit) < MaxAudit
                  /\ escalations' = Append(escalations, msg)
                  /\ audit' = Log(audit, user_id, "checkin_escalation", <<msg>>)
          ELSE UNCHANGED <<escalations, audit>>
       /\ ret' = [op |-> "evaluate_escalation", user_id |-> user_id, now |-> now,
                  status |-> "ok",
                  last_prompt |-> st.last_prompt,
                  last_response |-> st.last_response,
                  escalation_needed |-> escalate]
       /\ UNCHANGED <<profiles, consents, prefs, th>>

\* ------------------------------------------------- calls line by line
\* The demo endpoints are plain (non-async) functions, which the server runs
\* on worker threads: two calls on the shared service objects interleave
\* between statements and between the attribute reads of one statement.  A
\* dict or list operation (setdefault, get, item assignment, append) and a
\* single attribute read or write is one step.  A step is named after the
\* line of the method it executes.

Busy(t) == th[t].pc # "idle"

\* The thread moves to line pc with its locals changed as given.
Goto(t, pc) == th' = [th EXCEPT ![t].pc = pc]

\* The call returns: its arguments and locals are gone, the thread is free.
Return(t) == th' = [th EXCEPT ![t] = IdleThread]

\* The first lines of the methods.
FirstLine(op) ==
    CASE op = "add_profile" -> "add_profile_44"
      [] op = "grant_consent" -> "grant_consent_50"
      [] op = "set_prefs" -> "set_prefs_42"
      [] op = "send_prompt" -> "send_prompt_52"
      [] op = "record_response" -> "record_response_58"
      [] op = "evaluate_escalation" -> "evaluate_escalation_64"

\* A request arrives and a free thread starts the call.
Begin(t, op, user_id, now, caregiver_contact, escalate_after_minutes) ==
    /\ ~ Busy(t)
    /\ Len(audit) + Cardinality({o \in Threads : Busy(o)}) < MaxAudit
    /\ th' = [th EXCEPT ![t] =
                 [IdleThread EXCEPT !.pc = FirstLine(op), !.op = op, !.user_id = user_id,
                                    !.now = now,
                                    !.caregiver_contact = caregiver_contact,
                                    !.escalate_after_minutes = escalate_after_minutes]]
    /\ UNCHANGED <<profiles, consents, prefs, state, escalations, audit, ret>>

\* add_profile: the profile of the thread spec is ("Ann", 70).
add_profile_44(t) ==
    /\ th[t].pc = "add_profile_44"
    /\ profiles' = Put(profiles, th[t].user_id, Profile(th[t].user_id, "Ann", 70))
    /\ Goto(t, "add_profile_47")
    /\ UNCHANGED <<consents, prefs, state, escalations, audit, ret>>

add_profile_47(t) ==
    /\ th[t].pc = "add_profile_47"
    /\ audit' = Log(audit, th[t].user_id, "profile_create", <<>>)
    /\ ret' = [op |-> "add_profile", user_id |-> th[t].user_id, status |-> "ok"]
    /\ Return(t)
    /\ UNCHANGED <<profiles, consents, prefs, state, escalations>>

\* grant_consent: the grant of the thread spec is {"name"} to "caregiver".
grant_consent_50(t) ==
    /\ th[t].pc = "grant_consent_50"
    /\ Len(consents) < MaxConsents
    /\ consents' = Append(consents, ConsentRecord(th[t].user_id, "caregiver", {"name"}))
    /\ Goto(t, "grant_consent_58")
    /\ UNCHANGED <<profiles, prefs, state, escalations, audit, ret>>

grant_consent_58(t) ==
    /\ th[t].pc = "grant_consent_58"
    /\ audit' = Log(audit, th[t].user_id, "consent_grant", <<"caregiver">>)
    /\ ret' = [op |-> "grant_consent", user_id |-> th[t].user_id,
               viewer_role |-> "caregiver", status |-> "ok"]
    /\ Return(t)
    /\ UNCHANGED <<profiles, consents, prefs, state, escalations>>

set_prefs_42(t) ==
    /\ th[t].pc = "set_prefs_42"
    /\ prefs' = Put(prefs, th[t].user_id,
                    CaregiverPrefs(th[t].user_id, th[t].caregiver_contact,
                                   th[t].escalate_after_minutes))
    /\ Goto(t, "set_prefs_47")
    /\ UNCHANGED <<profiles, consents, state, escalations, audit, ret>>

set_prefs_47(t) ==
    /\ th[t].pc = "set_prefs_47"
    /\ state' = SetDefault(state, th[t].user_id, CheckInState(th[t].user_id))
    /\ Goto(t, "set_prefs_48")
    /\ UNCHANGED <<profiles, consents, prefs, escalations, audit, ret>>

set_prefs_48(t) ==
    /\ th[t].pc = "set_prefs_48"
    /\ audit' = Log(audit, th[t].user_id, "checkin_set_prefs", <<>>)
    /\ ret' = [op |-> "set_prefs", user_id |-> th[t].user_id,
               caregiver_contact |-> th[t].caregiver_contact,
               escalate_after_minutes |-> th[t].escalate_after_minutes, status |-> "ok"]
    /\ Return(t)
    /\ UNCHANGED <<profiles, consents, prefs, state, escalations>>

\* Variant: the state is created anew instead of with setdefault.
send_prompt_52_Overwrite(t) ==
    /\ th[t].pc = "send_prompt_52"
    /\ state' = Put(state, th[t].user_id, CheckInState(th[t].user_id))
    /\ Goto(t, "send_prompt_53")
    /\ UNCHANGED <<profiles, consents, prefs, escalations, audit, ret>>

\* st = self.state.setdefault(..): st is the one CheckInState object the
\* dict holds for the user from now on, state[user_id] in the model.
send_prompt_52(t) ==
    /\ th[t].pc = "send_prompt_52"
    /\ state' = SetDefault(state, th[t].user_id, CheckInState(th[t].user_id))
    /\ Goto(t, "send_prompt_53")
    /\ UNCHANGED <<profiles, consents, prefs, escalations, audit, ret>>

send_prompt_53(t) ==
    /\ th[t].pc = "send_prompt_53"
    /\ state' = [state EXCEPT ![th[t].user_id].last_prompt = th[t].now]
    /\ Goto(t, "send_prompt_54")
    /\ UNCHANGED <<profiles, consents, prefs, escalations, audit, ret>>

send_prompt_54(t) ==
    /\ th[t].pc = "send_prompt_54"
    /\ audit' = Log(audit, th[t].user_id, "checkin_prompt_sent", <<>>)
    /\ ret' = [op |-> "send_prompt", user_id |-> th[t].user_id, now |-> th[t].now,
               status |-> "ok"]
    /\ Return(t)
    /\ UNCHANGED <<profiles, consents, prefs, state, escalations>>

\* Variant: the audit entry is written here, before the response is stored.
record_response_58_LogFirst(t) ==
    /\ th[t].pc = "record_response_58"
    /\ state' = SetDefault(state, th[t].user_id, CheckInState(th[t].user_id))
    /\ audit' = Log(audit, th[t].user_id, "checkin_response_received", <<>>)
    /\ Goto(t, "record_response_59")
    /\ UNCHANGED <<profiles, consents, prefs, escalations, ret>>

record_response_58(t) ==
    /\ th[t].pc = "record_response_58"
    /\ state' = SetDefault(state, th[t].user_id, CheckInState(th[t].user_id))
    /\ Goto(t, "record_response_59")
    /\ UNCHANGED <<profiles, consents, prefs, escalations, audit, ret>>

record_response_59(t) ==
    /\ th[t].pc = "record_response_59"
    /\ state' = [state EXCEPT ![th[t].user_id].last_response = th[t].now]
    /\ Goto(t, "record_response_60")
    /\ UNCHANGED <<profiles, consents, prefs, escalations, audit, ret>>

record_response_60(t) ==
    /\ th[t].pc = "record_response_60"
    /\ audit' = Log(audit, th[t].user_id, "checkin_response_received", <<>>)
    /\ ret' = [op |-> "record_response", user_id |-> th[t].user_id, now |-> th[t].now,
               status |-> "ok"]
    /\ Return(t)
    /\ UNCHANGED <<profiles, consents, prefs, state, escalations>>

evaluate_escalation_64(t) ==
    /\ th[t].pc = "evaluate_escalation_64"
    /\ state' = SetDefault(state, th[t].user_id, CheckInState(th[t].user_id))
    /\ Goto(t, "evaluate_escalation_65")
    /\ UNCHANGED <<profiles, consents, prefs, escalations, audit, ret>>

\* prefs = self.prefs.get(user_id), and the test of prefs that opens line 67:
\* without prefs the call goes straight to its return statement.
evaluate_escalation_65(t) ==
    /\ th[t].pc = "evaluate_escalation_65"
    /\ IF th[t].user_id \in DOMAIN prefs
       THEN th' = [th EXCEPT ![t].pc = "evaluate_escalation_67a",
                             ![t].has_prefs = TRUE,
                             ![t].p_contact = prefs[th[t].user_id].caregiver_contact,
                             ![t].p_minutes = prefs[th[t].user_id].escalate_after_minutes]
       ELSE Goto(t, "evaluate_escalation_75")
    /\ UNCHANGED <<profiles, consents, prefs, state, escalations, audit, ret>>

\* Line 67, "st.last_prompt and": first read of last_prompt.
evaluate_escalation_67a(t) ==
    /\ th[t].pc = "evaluate_escalation_67a"
    /\ IF state[th[t].user_id].last_prompt = None
       THEN Goto(t, "evaluate_escalation_75")
       ELSE Goto(t, "evaluate_escalation_67b")
    /\ UNCHANGED <<profiles, consents, prefs, state, escalations, audit, ret>>

\* Line 67, "not st.last_response or": first read of last_response.
evaluate_escalation_67b(t) ==
    /\ th[t].pc = "evaluate_escalation_67b"
    /\ IF state[th[t].user_id].last_response = None
       THEN Goto(t, "evaluate_escalation_68")
       ELSE Goto(t, "evaluate_escalation_67c")
    /\ UNCHANGED <<profiles, consents, prefs, state, escalations, audit, ret>>

\* Line 67, "st.last_response <": second read of last_response.
evaluate_escalation_67c(t) ==
    /\ th[t].pc = "evaluate_escalation_67c"
    /\ th' = [th EXCEPT ![t].pc = "evaluate_escalation_67d",
                        ![t].tmp = state[th[t].user_id].last_response]
    /\ UNCHANGED <<profiles, consents, prefs, state, escalations, audit, ret>>

\* Line 67, "< st.last_prompt": second read of last_prompt and the comparison.
evaluate_escalation_67d(t) ==
    /\ th[t].pc = "evaluate_escalation_67d"
    /\ IF th[t].tmp < state[th[t].user_id].last_prompt
       THEN th' = [th EXCEPT ![t].pc = "evaluate_escalation_68", ![t].tmp = None]
       ELSE th' = [th EXCEPT ![t].pc = "evaluate_escalation_75", ![t].tmp = None]
    /\ UNCHANGED <<profiles, consents, prefs, state, escalations, audit, ret>>

\* Line 68: third read of last_prompt and the threshold test; 69 sets the
\* local escalate.
evaluate_escalation_68(t) ==
    /\ th[t].pc = "evaluate_escalation_68"
    /\ IF th[t].now - state[th[t].user_id].last_prompt >= timedelta(th[t].p_minutes)
       THEN th' = [th EXCEPT ![t].pc = "evaluate_escalation_71", ![t].escalate = TRUE]
       ELSE Goto(t, "evaluate_escalation_75")
    /\ UNCHANGED <<profiles, consents, prefs, state, escalations, audit, ret>>

evaluate_escalation_71(t) ==
    /\ th[t].pc = "evaluate_escalation_71"
    /\ escalations' = Append(escalations,
                             EscalationMsg(th[t].user_id, th[t].p_contact, th[t].now))
    /\ Goto(t, "evaluate_escalation_72")
    /\ UNCHANGED <<profiles, consents, prefs, state, audit, ret>>

evaluate_escalation_72(t) ==
    /\ th[t].pc = "evaluate_escalation_72"
    /\ audit' = Log(audit, th[t].user_id, "checkin_escalation",
                    <<EscalationMsg(th[t].user_id, th[t].p_contact, th[t].now)>>)
    /\ Goto(t, "evaluate_escalation_75")
    /\ UNCHANGED <<profiles, consents, prefs, state, escalations, ret>>

\* Line 75 of the return statement: last_prompt is read for the result.
evaluate_escalation_75(t) ==
    /\ th[t].pc = "evaluate_escalation_75"
    /\ th' = [th EXCEPT ![t].pc = "evaluate_escalation_76",
                        ![t].tmp = state[th[t].user_id].last_prompt]
    /\ UNCHANGED <<profiles, consents, prefs, state, escalations, audit, ret>>

\* Line 76: last_response is read and the status is returned.
evaluate_escalation_76(t) ==
    /\ th[t].pc = "evaluate_escalation_76"
    /\ ret' = [op |-> "evaluate_escalation", user_id |-> th[t].user_id, now |-> th[t].now,
               status |-> "ok",
               last_prompt |-> th[t].tmp,
               last_response |-> state[th[t].user_id].last_response,
               escalation_needed |-> th[t].escalate]
    /\ Return(t)
    /\ UNCHANGED <<profiles, consents, prefs, state, escalations, audit>>

\* One step of a thread that is inside a call.
Step(t) ==
    \/ add_profile_44(t) \/ add_profile_47(t)
    \/ grant_consent_50(t) \/ grant_consent_58(t)
    \/ set_prefs_42(t) \/ set_prefs_47(t) \/ set_prefs_48(t)
    \/ send_prompt_52(t) \/ send_prompt_53(t) \/ send_prompt_54(t)
    \/ record_response_58(t) \/ record_response_59(t) \/ record_response_60(t)
    \/ evaluate_escalation_64(t) \/ evaluate_escalation_65(t)
    \/ evaluate_escalation_67a(t) \/ evaluate_escalation_67b(t)
    \/ evaluate_escalation_67c(t) \/ evaluate_escalation_67d(t)
    \/ evaluate_escalation_68(t)
    \/ evaluate_escalation_71(t) \/ evaluate_escalation_72(t)
    \/ evaluate_escalation_75(t) \/ evaluate_escalation_76(t)

\* ------------------------------------------------- caregiver dashboard
\* p in s for two Python strings: p occurs in s as a substring.
Contains(s, p) ==
    \E i \in 1..(Len(s) - Len(p) + 1) : SubSeq(s, i, i + Len(p) - 1) = p

DigitChars == <<"0", "1", "2", "3", "4", "5", "6", "7", "8", "9">>

TwoDigits(n) == DigitChars[(n \div 10) + 1] \o DigitChars[(n % 10) + 1]

\* datetime.isoformat() of the moment t ticks after midnight of a fixed day:
\* digits and the separators - T : only.
isoformat(t) ==
    "2025-01-01T00:" \o TwoDigits(t \div TicksPerMinute) \o ":"
       \o TwoDigits((t % TicksPerMinute) * (60 \div TicksPerMinute))

\* The f-string that evaluate_escalation stores and logs, built from the
\* three values an EscalationMsg holds.
MsgText(msg) ==
    "Escalate for " \o msg[1] \o " to " \o msg[2] \o " at " \o isoformat(msg[3])

\* The one elder the dashboard shows.
elder_id == "elder-1"

\* GET /demo/caregiver-dashboard: reads the check-in state of elder_id and
\* the escalation list; writes nothing.  The reminders part of the answer
\* is left out.
demo_caregiver_dashboard(caregiver_id) ==
    /\ ret' = [op |-> "demo_caregiver_dashboard", caregiver_id |-> caregiver_id,
               user_id |-> elder_id,
               last_prompt |-> IF elder_id \in DOMAIN state
                               THEN state[elder_id].last_prompt ELSE None,
               last_response |-> IF elder_id \in DOMAIN state
                                 THEN state[elder_id].last_response ELSE None,
               escalation_needed |->
                   \E i \in 1..Len(escalations) : Contains(MsgText(escalations[i]), elder_id),
               escalations |-> [i \in 1..Len(escalations) |-> MsgText(escalations[i])]]
    /\ UNCHANGED <<profiles, consents, prefs, state, escalations, audit, th>>

\* ------------------------------------------------- elder advice agent
\* A Python str is a TLA+ string; Char is its i-th character as a string.
Char(s, i) == SubSeq(s, i, i)

UpperCase == "ABCDEFGHIJKLMNOPQRSTUVWXYZ"

LowerCase == "abcdefghijklmnopqrstuvwxyz"

\* str.lower() on one character: an ASCII capital becomes its small letter.
LowerChar(c) ==
    LET at == {k \in 1..Len(UpperCase) : Char(UpperCase, k) = c}
    IN IF at = {} THEN c ELSE Char(LowerCase, CHOOSE k \in at : TRUE)

\* str.lower(): the characters of s in lower case, those from the i-th on.
RECURSIVE LowerFrom(_, _)
LowerFrom(s, i) ==
    IF i > Len(s) THEN ""
    ELSE LowerChar(Char(s, i)) \o LowerFrom(s, i + 1)

lower(s) == LowerFrom(s, 1)

\* The characters str.strip() removes, of those the messages use.
Whitespace == {" ", "\t", "\n"}

\* str.strip(): what lies between the first and the last character that
\* is not whitespace, "" if there is none.
strip(s) ==
    LET solid == {i \in 1..Len(s) : Char(s, i) \notin Whitespace}
    IN IF solid = {} THEN ""
       ELSE SubSeq(s, CHOOSE i \in solid : \A j \in solid : i <= j,
                      CHOOSE i \in solid : \A j \in solid : j <= i)

emergency_signs ==
    <<"chest pain", "trouble breathing", "difficulty breathing", "severe pain",
      "sudden weakness", "face drooping", "slurred speech", "can't move",
      "cannot move", "loss of consciousness", "fainted", "unresponsive">>

\* The two fixed replies, by their opening words.
GreetingReply == "Hello! I'm an elder advice companion powered by an online AI model."

EmergencyReply == "This may be an emergency."

\* What the external generator may answer: advice, or the text
\* call_online_llm returns when the request fails.
LlmReplies ==
    {"Try a warm drink and a short rest.",
     "I'm having trouble contacting my AI model right now (network or quota issue)."}

\* Variant: the phrases are looked for in the text as typed.
build_elder_advice_reply_CaseSensitive(user_text, llm_reply) ==
    IF strip(user_text) = ""
    THEN [reply |-> GreetingReply, delegated |-> <<>>]
    ELSE IF \E k \in 1..Len(emergency_signs) : Contains(user_text, emergency_signs[k])
         THEN [reply |-> EmergencyReply, delegated |-> <<>>]
         ELSE [reply |-> llm_reply, delegated |-> <<user_text>>]

\* build_elder_advice_reply: the reply, and the texts handed to
\* call_online_llm on the way (llm_reply is what the generator answers if
\* it is asked).
build_elder_advice_reply(user_text, llm_reply) ==
    IF strip(user_text) = ""
    THEN [reply |-> GreetingReply, delegated |-> <<>>]
    ELSE LET lower_text == lower(user_text)
         IN IF \E k \in 1..Len(emergency_signs) : Contains(lower_text, emergency_signs[k])
            THEN [reply |-> EmergencyReply, delegated |-> <<>>]
         ELSE [reply |-> llm_reply, delegated |-> <<user_text>>]

\* The content of the last message with role user, "" if there is none.
RECURSIVE get_last_user_message(_)
get_last_user_message(messages) ==
    IF messages = <<>> THEN ""
    ELSE IF messages[Len(messages)].role = "user" THEN messages[Len(messages)].content
    ELSE get_last_user_message(SubSeq(messages, 1, Len(messages) - 1))

\* POST /api/elder-advice-agent.
elder_advice_agent(messages, llm_reply) ==
    /\ \E user_message \in {get_last_user_message(messages)} :
          \E r \in {build_elder_advice_reply(user_message, llm_reply)} :
             ret' = [op |-> "elder_advice_agent", messages |-> messages,
                     user_message |-> user_message, status |-> "success",
                     message |-> r.reply, delegated |-> r.delegated]
    /\ UNCHANGED <<profiles, consents, prefs, state, escalations, audit, th>>

\* ---------------------------------------------------------- specifications
NextConsent ==
    \/ \E u \in Users, d \in ProfileInputs : add_profile(u, d[1], d[2])
    \/ \E u \in Users, r \in Roles, fs \in GrantSets : grant_consent(u, r, fs)
    \/ \E u \in Users, r \in Roles : view_profile(u, r)

NextCheckIn ==
    \/ \E u \in CheckInUsers, c \in Contacts, m \in Minutes : set_prefs(u, c, m)
    \/ \E u \in CheckInUsers, t \in Time : send_prompt(u, t)
    \/ \E u \in CheckInUsers, t \in Time : record_response(u, t)
    \/ \E u \in CheckInUsers, t \in Time : evaluate_escalation(u, t)

Next ==
    \/ NextConsent
    \/ NextCheckIn

Spec == Init /\ [][Next]_vars

\* The store on its own, and the tracker on its own: the two components
\* share nothing but the audit log.
SpecConsent == Init /\ [][NextConsent]_vars

SpecCheckIn == Init /\ [][NextCheckIn]_vars

\* Both components behind the one audit log, for a single user and role and
\* the extreme instants only.
AuditRoles == {"caregiver"}

AuditTimes == {0, MaxTime}

NextAudit ==
    \/ \E u \in CheckInUsers : add_profile(u, "Ann", 70)
    \/ \E u \in CheckInUsers, r \in AuditRoles : grant_consent(u, r, {"name", "email"})
    \/ \E u \in CheckInUsers, r \in AuditRoles : view_profile(u, r)
    \/ \E u \in CheckInUsers, m \in Minutes : set_prefs(u, "cg-1", m)
    \/ \E u \in CheckInUsers, t \in AuditTimes : send_prompt(u, t)
    \/ \E u \in CheckInUsers, t \in AuditTimes : record_response(u, t)
    \/ \E u \in CheckInUsers, t \in AuditTimes : evaluate_escalation(u, t)

SpecAudit == Init /\ [][NextAudit]_vars

\* The store for one user seen by two roles, with grants that are nested in
\* one another, the empty grant included.
NestedGrantSets == {{}, {"name"}, {"name", "age"}}

NextAdditive ==
    \/ \E u \in CheckInUsers, d \in ProfileInputs : add_profile(u, d[1], d[2])
    \/ \E u \in CheckInUsers, r \in Roles, fs \in NestedGrantSets : grant_consent(u, r, fs)
    \/ \E u \in CheckInUsers, r \in Roles : view_profile(u, r)

SpecAdditive == Init /\ [][NextAdditive]_vars

\* The call named by the audit action has not been made yet.
NotCalled(action) == \A i \in 1..Len(audit) : audit[i].action # action

\* One send_prompt and one record_response for the same user, each on its
\* own thread, started at any moment on the freshly constructed service.
NextRace ==
    \/ \E u \in CheckInUsers, now \in Time :
          NotCalled("checkin_prompt_sent") /\ Begin(1, "send_prompt", u, now, "", 0)
    \/ \E u \in CheckInUsers, now \in Time :
          NotCalled("checkin_response_received")
          /\ Begin(2, "record_response", u, now, "", 0)
    \/ \E u \in CheckInUsers :
          \* an earlier call may have created the user's state already
          /\ audit = <<>> /\ \A t \in Threads : ~ Busy(t)
          /\ set_prefs(u, "cg-1", 0)
    \/ \E t \in Threads :
          \/ send_prompt_52(t) \/ send_prompt_53(t) \/ send_prompt_54(t)
          \/ record_response_58(t) \/ record_response_59(t) \/ record_response_60(t)

SpecRace == Init /\ [][NextRace]_vars

\* Any calls on the two threads, for one user: a response at time 0, a
\* prompt and an evaluation at the last moment.
NextThreads ==
    \/ \E t \in Threads, u \in CheckInUsers :
          \/ Begin(t, "add_profile", u, None, "", 0)
          \/ Begin(t, "grant_consent", u, None, "", 0)
          \/ \E m \in {0, MaxMinutes} : Begin(t, "set_prefs", u, None, "cg-1", m)
          \/ Begin(t, "record_response", u, 0, "", 0)
          \/ Begin(t, "send_prompt", u, MaxTime, "", 0)
          \/ Begin(t, "evaluate_escalation", u, MaxTime, "", 0)
    \/ \E t \in Threads : Step(t)

SpecThreads == Init /\ [][NextThreads]_vars

\* The check-in service for two users, with one contact and the two extreme
\* times.
NextFrame ==
    \/ \E u \in Users, m \in {0, MaxMinutes} : set_prefs(u, "cg-1", m)
    \/ \E u \in Users, t \in AuditTimes : send_prompt(u, t)
    \/ \E u \in Users, t \in AuditTimes : record_response(u, t)
    \/ \E u \in Users : evaluate_escalation(u, MaxTime)

SpecFrame == Init /\ [][NextFrame]_vars

\* One evaluate_escalation on thread 1 while thread 2 sends prompts and
\* records responses for the same user; prefs are set between calls.
NextSnapshot ==
    \/ \E u \in CheckInUsers, m \in Minutes \ {0} :
          /\ \A t \in Threads : ~ Busy(t)
          /\ set_prefs(u, "cg-1", m)
    \/ \E u \in CheckInUsers, now \in Time :
          Begin(1, "evaluate_escalation", u, now, "", 0)
    \/ \E u \in CheckInUsers, now \in Time : Begin(2, "send_prompt", u, now, "", 0)
    \/ \E u \in CheckInUsers, now \in Time : Begin(2, "record_response", u, now, "", 0)
    \/ \E t \in Threads :
          \/ send_prompt_52(t) \/ send_prompt_53(t) \/ send_prompt_54(t)
          \/ record_response_58(t) \/ record_response_59(t) \/ record_response_60(t)
          \/ evaluate_escalation_64(t) \/ evaluate_escalation_65(t)
          \/ evaluate_escalation_67a(t) \/ evaluate_escalation_67b(t)
          \/ evaluate_escalation_67c(t) \/ evaluate_escalation_67d(t)
          \/ evaluate_escalation_68(t)
          \/ evaluate_escalation_71(t) \/ evaluate_escalation_72(t)
          \/ evaluate_escalation_75(t) \/ evaluate_escalation_76(t)

SpecSnapshot == Init /\ [][NextSnapshot]_vars

\* The dashboard over a check-in service with three users, one of whose ids
\* begins with the id of another, and with a contact named like a user.
\* The prompts are sent at time 0 and evaluated at the last moment, with a
\* threshold of MaxMinutes.
DashboardUsers == {"elder-1", "elder-2", "elder-10"}

DashboardContacts == {"cg-1", "elder-1"}

NextDashboard ==
    \/ \E u \in DashboardUsers, c \in DashboardContacts : set_prefs(u, c, MaxMinutes)
    \/ \E u \in DashboardUsers : send_prompt(u, 0)
    \/ \E u \in DashboardUsers : record_response(u, MaxTime)
    \/ \E u \in DashboardUsers : evaluate_escalation(u, MaxTime)
    \/ demo_caregiver_dashboard("caregiver-1")

SpecDashboard == Init /\ [][NextDashboard]_vars

\* The messages sent to the agent: a phrase or something close to one, in
\* some spelling, alone or inside a sentence; and blank ones.
Openings == {"", " I have "}

Cores ==
    {"chest pain", "Chest Pain", "CHEST PAIN", "trouble breathing", "Trouble Breathing",
     "DIFFICULTY BREATHING", "severe pain", "Severe pain", "SUDDEN WEAKNESS",
     "face drooping", "Slurred Speech", "can't move", "Can't Move", "CANNOT MOVE",
     "Loss of Consciousness", "fainted", "FAINTED", "unResponsive",
     "chest  pain", "chestpain", "pain in my chest", "faint", "cant move",
     "a sore knee", "trouble sleeping", "hello", "", " ", "\t\n"}

Endings == {"", " now!\n"}

UserTexts == {o \o c \o e : o \in Openings, c \in Cores, e \in Endings}

\* The requests: each text as the only message, and four requests with
\* messages of other roles or an earlier user message around it.
AgentRequests ==
    {<<[role |-> "user", content |-> text]>> : text \in UserTexts}
       \cup {<<[role |-> "system", content |-> "chest pain"],
               [role |-> "user", content |-> "hello"],
               [role |-> "assistant", content |-> "fainted"]>>,
             <<[role |-> "user", content |-> "CHEST PAIN"],
               [role |-> "user", content |-> "a sore knee"]>>,
             <<[role |-> "user", content |-> "a sore knee"],
               [role |-> "user", content |-> "Fainted"],
               [role |-> "assistant", content |-> "hello"]>>,
             <<[role |-> "assistant", content |-> "I have chest pain"]>>}

NextAdvice ==
    \E messages \in AgentRequests, llm_reply \in LlmReplies :
       elder_advice_agent(messages, llm_reply)

SpecAdvice == Init /\ [][NextAdvice]_vars

\* ================================================================ properties
\* Helpers used by the properties only.

\* The keys of a returned view, and whether a call just returned a view.
ViewKeys(fields) == {fields[i][1] : i \in 1..Len(fields)}

Viewed == ret.op = "view_profile" /\ ret.status = "ok"

\* The indices of the consent records granted for exactly (user_id, role).
Matching(user_id, role) ==
    {i \in 1..Len(consents) : consents[i].user_id = user_id /\ consents[i].viewer_role = role}

GrantedUnion(user_id, role) == UNION {consents[i].allowed_fields : i \in Matching(user_id, role)}

\* The permutations of 1..n, for every length the consent list can have.
IndexPermutations == [n \in 0..MaxConsents |-> Permutations(1..n)]

\* cs rearranged by the permutation p of its indices.
Permuted(cs, p) == [i \in 1..Len(cs) |-> cs[p[i]]]

\* C1 - Least privilege: a view returned by view_profile(user_id, role) holds
\* no field for which there is no ConsentRecord with exactly that user_id and
\* exactly that viewer_role; grants for another user or role do not widen it.
C1_LeastPrivilege ==
    Viewed => \A f \in ViewKeys(ret.fields) :
                 \E i \in 1..Len(consents) :
                    /\ consents[i].user_id = ret.user_id
                    /\ consents[i].viewer_role = ret.role
                    /\ f \in consents[i].allowed_fields

\* A view that left out "name" although another role of the same user, and
\* another user with the same role, had been granted it.
C1_Witness ==
    /\ Viewed
    /\ "name" \notin ViewKeys(ret.fields)
    /\ \E i \in 1..Len(consents) :
          /\ consents[i].user_id = ret.user_id
          /\ consents[i].viewer_role # ret.role
          /\ "name" \in consents[i].allowed_fields
    /\ \E i \in 1..Len(consents) :
          /\ consents[i].user_id # ret.user_id
          /\ consents[i].viewer_role = ret.role
          /\ "name" \in consents[i].allowed_fields

\* C2 - Consent union: the allowed set computed for (user, role) is the union
\* of the sets granted to that pair, and it is the same for every reordering
\* of the grants and when every grant is repeated.
C2_ConsentUnion ==
    /\ \A u \in Users, r \in Roles :
          _get_allowed_fields(consents, u, r) = GrantedUnion(u, r)
    /\ \A p \in IndexPermutations[Len(consents)] :
          LET permuted == Permuted(consents, p)
          IN \A u \in Users, r \in Roles :
                _get_allowed_fields(permuted, u, r) = _get_allowed_fields(consents, u, r)
    /\ LET repeated == consents \o consents
       IN \A u \in Users, r \in Roles :
             _get_allowed_fields(repeated, u, r) = _get_allowed_fields(consents, u, r)

\* Two grants to the same (user, role), neither containing the other, after
\* which the view shows the fields of both.
C2_Witness ==
    /\ Viewed
    /\ \E i, j \in Matching(ret.user_id, ret.role) :
          /\ i < j
          /\ ~ (consents[i].allowed_fields \subseteq consents[j].allowed_fields)
          /\ ~ (consents[j].allowed_fields \subseteq consents[i].allowed_fields)
    /\ ViewKeys(ret.fields) = {"name", "age"}

\* C3 - For a registered user the view is exactly the granted ones among
\* name and age, each with the stored value, name before age; a field that
\* was not granted is absent and an unknown granted name adds no key.
C3_ViewExact ==
    Viewed =>
       LET allowed == GrantedUnion(ret.user_id, ret.role)
           p == profiles[ret.user_id]
       IN ret.fields =
             (IF "name" \in allowed THEN << <<"name", p.name>> >> ELSE <<>>)
             \o (IF "age" \in allowed THEN << <<"age", p.age>> >> ELSE <<>>)

\* A view after the unknown field "email" was granted along with "name" and
\* "age" was not granted: only name is shown.
C3_Witness ==
    /\ Viewed
    /\ "email" \in GrantedUnion(ret.user_id, ret.role)
    /\ "age" \notin GrantedUnion(ret.user_id, ret.role)
    /\ ret.fields = << <<"name", profiles[ret.user_id].name>> >>

\* The full view, where the order of the two entries shows.
C3_WitnessBoth ==
    /\ Viewed
    /\ Len(ret.fields) = 2

\* C4 - view_profile for a user_id without a profile fails with NotFound,
\* whatever was granted for it, and leaves profiles, consent records and the
\* audit log as they were.
C4_NoProfileNoView ==
    [][(ret'.op = "view_profile" /\ ret'.user_id \notin DOMAIN profiles)
          => (/\ ret'.status = NotFound
              /\ UNCHANGED <<profiles, consents, audit>>)]_vars

\* A failed view of a user for whom the viewing role had been granted "name".
C4_Witness ==
    /\ ret.op = "view_profile"
    /\ ret.status = NotFound
    /\ ret.user_id \notin DOMAIN profiles
    /\ "name" \in GrantedUnion(ret.user_id, ret.role)

\* C5 - add_profile for a user_id that has a profile fails with DuplicateKey
\* and a registered profile never changes afterwards.
C5_ProfileImmutable ==
    [][/\ (ret'.op = "add_profile" /\ ret'.user_id \in DOMAIN profiles)
             => ret'.status = "DuplicateKey"
       /\ \A u \in DOMAIN profiles : u \in DOMAIN profiles' /\ profiles'[u] = profiles[u]]_vars

\* Whether evaluate_escalation just returned.
Evaluated == ret.op = "evaluate_escalation"

\* C6 - Inclusive threshold: with prefs of m minutes, a prompt at T and no
\* response, evaluate_escalation(now) returns true exactly when now - T is at
\* least m minutes.
C6_ThresholdInclusive ==
    (/\ Evaluated
     /\ ret.user_id \in DOMAIN prefs
     /\ state[ret.user_id].last_prompt # None
     /\ state[ret.user_id].last_response = None)
    => (ret.escalation_needed
           <=> (ret.now - state[ret.user_id].last_prompt
                   >= prefs[ret.user_id].escalate_after_minutes * TicksPerMinute))

\* An evaluation exactly m > 0 minutes after the unanswered prompt: true.
C6_Witness ==
    /\ Evaluated
    /\ ret.user_id \in DOMAIN prefs
    /\ prefs[ret.user_id].escalate_after_minutes > 0
    /\ state[ret.user_id].last_prompt # None
    /\ state[ret.user_id].last_response = None
    /\ ret.now - state[ret.user_id].last_prompt
          = prefs[ret.user_id].escalate_after_minutes * TicksPerMinute
    /\ ret.escalation_needed

\* An evaluation one tick short of the m minutes: false.
C6_WitnessBelow ==
    /\ Evaluated
    /\ ret.user_id \in DOMAIN prefs
    /\ state[ret.user_id].last_prompt # None
    /\ state[ret.user_id].last_response = None
    /\ ret.now - state[ret.user_id].last_prompt
          = prefs[ret.user_id].escalate_after_minutes * TicksPerMinute - 1
    /\ ~ ret.escalation_needed

\* C7 - Response clears escalation: when the stored response is later than
\* the stored prompt, evaluate_escalation returns false and appends no
\* EscalationRecord, at whatever time it is evaluated.
C7_ResponseClears ==
    [][(/\ ret'.op = "evaluate_escalation"
        /\ ret'.user_id \in DOMAIN state
        /\ state[ret'.user_id].last_prompt # None
        /\ state[ret'.user_id].last_response # None
        /\ state[ret'.user_id].last_response > state[ret'.user_id].last_prompt)
          => (~ ret'.escalation_needed /\ escalations' = escalations)]_vars

\* An evaluation past the threshold of a prompt that was answered later.
C7_Witness ==
    /\ Evaluated
    /\ ret.user_id \in DOMAIN prefs
    /\ state[ret.user_id].last_prompt # None
    /\ state[ret.user_id].last_response > state[ret.user_id].last_prompt
    /\ ret.now - state[ret.user_id].last_prompt
          >= prefs[ret.user_id].escalate_after_minutes * TicksPerMinute
    /\ ~ ret.escalation_needed

\* C8 - Stale response does not clear: with a response at T0, a later prompt
\* at T1 > T0 and prefs, evaluate_escalation at or past the threshold after
\* T1 returns true.
C8_StaleResponse ==
    (/\ Evaluated
     /\ ret.user_id \in DOMAIN prefs
     /\ state[ret.user_id].last_prompt # None
     /\ state[ret.user_id].last_response # None
     /\ state[ret.user_id].last_response < state[ret.user_id].last_prompt
     /\ ret.now - state[ret.user_id].last_prompt
           >= prefs[ret.user_id].escalate_after_minutes * TicksPerMinute)
    => ret.escalation_needed

\* The position of the last audit entry of the user with the given action,
\* 0 if there is none.
LastLogged(user_id, action) ==
    LET at == {i \in 1..Len(audit) : audit[i].actor = user_id /\ audit[i].action = action}
    IN IF at = {} THEN 0 ELSE CHOOSE i \in at : \A j \in at : j <= i

\* The response was recorded first, the prompt sent after it, and the
\* evaluation m > 0 minutes or more after the prompt escalated.
C8_Witness ==
    /\ Evaluated
    /\ ret.user_id \in DOMAIN prefs
    /\ prefs[ret.user_id].escalate_after_minutes > 0
    /\ state[ret.user_id].last_response # None
    /\ state[ret.user_id].last_response < state[ret.user_id].last_prompt
    /\ 0 < LastLogged(ret.user_id, "checkin_response_received")
    /\ LastLogged(ret.user_id, "checkin_response_received")
          < LastLogged(ret.user_id, "checkin_prompt_sent")
    /\ ret.escalation_needed

\* The escalation condition of a call evaluate_escalation(user_id, now), on
\* the state the call starts from.
Qualifies(user_id, now) ==
    /\ user_id \in DOMAIN prefs
    /\ user_id \in DOMAIN state
    /\ state[user_id].last_prompt # None
    /\ (state[user_id].last_response = None
           \/ state[user_id].last_response < state[user_id].last_prompt)
    /\ now - state[user_id].last_prompt
          >= prefs[user_id].escalate_after_minutes * TicksPerMinute

\* escalations' is escalations with n more records at its end.
Grown(n) ==
    /\ Len(escalations') = Len(escalations) + n
    /\ SubSeq(escalations', 1, Len(escalations)) = escalations

\* C9 - No deduplication: every evaluate_escalation call whose condition
\* holds appends exactly one EscalationRecord, and no operation shortens or
\* rewrites the list.
C9_NoDedup ==
    [][/\ (ret'.op = "evaluate_escalation" /\ Qualifies(ret'.user_id, ret'.now)) => Grown(1)
       /\ \E n \in 0..1 : Grown(n)]_vars

\* Two escalations recorded for one prompt that was sent once and never
\* answered.
C9_Witness ==
    /\ Evaluated
    /\ ret.escalation_needed
    /\ Len(escalations) >= 2
    /\ Cardinality({i \in 1..Len(audit) : audit[i].action = "checkin_prompt_sent"}) = 1
    /\ LastLogged(ret.user_id, "checkin_response_received") = 0

\* No prompt was ever sent to the user, by the audit log.
NeverPrompted(user_id) == LastLogged(user_id, "checkin_prompt_sent") = 0

\* C10 - For a user who was never sent a prompt evaluate_escalation returns
\* false and appends nothing, whatever the prefs, responses and time; and one
\* call appends at most one EscalationRecord.
C10_NoPromptNoEscalation ==
    [][ret'.op = "evaluate_escalation"
          => (/\ Len(escalations') <= Len(escalations) + 1
              /\ NeverPrompted(ret'.user_id)
                    => (~ ret'.escalation_needed /\ escalations' = escalations))]_vars

\* An evaluation for a user with prefs of 0 minutes and a recorded response
\* but no prompt.
C10_Witness ==
    /\ Evaluated
    /\ NeverPrompted(ret.user_id)
    /\ ret.user_id \in DOMAIN prefs
    /\ prefs[ret.user_id].escalate_after_minutes = 0
    /\ state[ret.user_id].last_response # None
    /\ ~ ret.escalation_needed

\* The action tag each operation logs.
TagOf(op) ==
    CASE op = "add_profile" -> "profile_create"
      [] op = "grant_consent" -> "consent_grant"
      [] op = "view_profile" -> "profile_view"
      [] op = "set_prefs" -> "checkin_set_prefs"
      [] op = "send_prompt" -> "checkin_prompt_sent"
      [] op = "record_response" -> "checkin_response_received"
      [] op = "evaluate_escalation" -> "checkin_escalation"

\* audit' is audit with exactly one more entry, carrying the given tag.
LoggedOne(action) ==
    /\ Len(audit') = Len(audit) + 1
    /\ SubSeq(audit', 1, Len(audit)) = audit
    /\ audit'[Len(audit')].action = action

\* C11 - Audit completeness: each successful add_profile, grant_consent,
\* view_profile, set_prefs, send_prompt, record_response and each escalating
\* evaluate_escalation appends exactly one audit entry with its own action
\* tag; an evaluate_escalation that does not escalate appends none.
C11_AuditCompleteness ==
    [][/\ (ret'.op # "evaluate_escalation" /\ ret'.status = "ok") => LoggedOne(TagOf(ret'.op))
       /\ (ret'.op = "evaluate_escalation" /\ ret'.escalation_needed)
             => LoggedOne("checkin_escalation")
       /\ (ret'.op = "evaluate_escalation" /\ ~ ret'.escalation_needed)
             => audit' = audit]_vars

\* An escalation logged last, after a response, a prefs registration and a
\* prompt each left their entry.
C11_Witness ==
    /\ Evaluated
    /\ ret.escalation_needed
    /\ Len(audit) = 4
    /\ audit[4].action = "checkin_escalation"
    /\ {audit[i].action : i \in 1..3}
          = {"checkin_response_received", "checkin_set_prefs", "checkin_prompt_sent"}

\* A view logged after the profile and the grant were.
C11_WitnessView ==
    /\ Viewed
    /\ Len(audit) = 3
    /\ audit[3].action = "profile_view"
    /\ {audit[i].action : i \in 1..2} = {"profile_create", "consent_grant"}

\* C12 - evaluate_escalation for a user without CaregiverPrefs, a user never
\* seen before included, raises nothing and returns escalation_needed =
\* false, even when a prompt is long unanswered.
C12_NoPrefsNoError ==
    (Evaluated /\ ret.user_id \notin DOMAIN prefs)
       => (ret.status = "ok" /\ ~ ret.escalation_needed)

\* An evaluation MaxTime ticks after an unanswered prompt, without prefs.
C12_Witness ==
    /\ Evaluated
    /\ ret.user_id \notin DOMAIN prefs
    /\ state[ret.user_id].last_prompt = 0
    /\ state[ret.user_id].last_response = None
    /\ ret.now = MaxTime
    /\ ~ ret.escalation_needed

\* An evaluation as the very first call for the user.
C12_WitnessUnseen ==
    /\ Evaluated
    /\ audit = <<>>
    /\ ret.last_prompt = None

\* C13 - Every stored CaregiverPrefs has escalate_after_minutes > 0: set_prefs
\* with a non-positive escalate_after_minutes is rejected with InvalidInput
\* and leaves the prefs as they were.
C13_PositiveThreshold ==
    /\ \A u \in DOMAIN prefs : prefs[u].escalate_after_minutes > 0
    /\ (ret.op = "set_prefs" /\ ret.escalate_after_minutes <= 0) => ret.status = "InvalidInput"

\* The field names view_profile(user_id, role) returns for the profiles ps
\* and the consent records cs.
VisibleKeys(ps, cs, user_id, role) ==
    ViewKeys(ViewItems(ps[user_id], _get_allowed_fields(cs, user_id, role),
                       Len(ProfileFieldOrder)))

\* C14 - Consent is additive: once a profile exists, no operation, a later
\* grant of a smaller or empty field set included, removes a field name from
\* what view_profile(user, role) returns.
C14_ConsentAdditive ==
    [][\A u \in DOMAIN profiles, r \in Roles :
          /\ u \in DOMAIN profiles'
          /\ VisibleKeys(profiles, consents, u, r)
                \subseteq VisibleKeys(profiles', consents', u, r)]_vars

\* A view that still shows what the first grant allowed, after a second
\* grant to the same role that allowed strictly less.
C14_Witness ==
    /\ Viewed
    /\ Len(consents) = 2
    /\ consents[1].viewer_role = ret.role
    /\ consents[2].viewer_role = ret.role
    /\ consents[2].allowed_fields \subseteq consents[1].allowed_fields
    /\ consents[2].allowed_fields # consents[1].allowed_fields
    /\ ViewKeys(ret.fields) = consents[1].allowed_fields
    /\ ViewKeys(ret.fields) # {}

\* The position in the audit log of the entry of the i-th grant.
GrantLoggedAt(i) ==
    CHOOSE k \in 1..Len(audit) :
       /\ audit[k].action = "consent_grant"
       /\ Cardinality({j \in 1..k : audit[j].action = "consent_grant"}) = i

\* The position of the first registration of the user, 0 if there is none.
FirstCreated(user_id) ==
    LET at == {k \in 1..Len(audit) :
                  audit[k].actor = user_id /\ audit[k].action = "profile_create"}
    IN IF at = {} THEN 0 ELSE CHOOSE k \in at : \A j \in at : k <= j

\* The records matching (user_id, role) granted before the user's profile was
\* first registered.
GrantedEarly(user_id, role) ==
    {i \in Matching(user_id, role) : GrantLoggedAt(i) < FirstCreated(user_id)}

\* C15 - grant_consent succeeds for a user without a profile and for any
\* role, and a grant made before the profile exists counts like one made
\* after it: the view shows the profile's name and age as far as the grants
\* made before and the grants made after the registration allow them.
C15_GrantBeforeProfile ==
    /\ ret.op = "grant_consent" => ret.status = "ok"
    /\ Viewed =>
          LET early == UNION {consents[i].allowed_fields :
                                 i \in GrantedEarly(ret.user_id, ret.role)}
              late == UNION {consents[i].allowed_fields :
                                i \in Matching(ret.user_id, ret.role)
                                         \ GrantedEarly(ret.user_id, ret.role)}
          IN ViewKeys(ret.fields) = (early \cup late) \cap {"name", "age"}

\* A view showing a field that only a grant made before the registration
\* allowed.
C15_Witness ==
    /\ Viewed
    /\ GrantedEarly(ret.user_id, ret.role) # {}
    /\ Matching(ret.user_id, ret.role) = GrantedEarly(ret.user_id, ret.role)
    /\ "name" \in ViewKeys(ret.fields)

\* A grant that succeeded for a user who has no profile.
C15_WitnessNoProfile ==
    /\ ret.op = "grant_consent"
    /\ ret.status = "ok"
    /\ ret.user_id \notin DOMAIN profiles
    /\ Len(consents) = 1

\* The number of audit entries of the user with the given action.
TimesLogged(user_id, action) ==
    Cardinality({i \in 1..Len(audit) : audit[i].actor = user_id /\ audit[i].action = action})

\* C16 - set_prefs is a keyed upsert, last write wins: the stored prefs are
\* those of the latest call and they are what an escalation uses.  It
\* leaves an existing CheckInState untouched and creates a missing one with
\* both timestamps unset.
C16_SetPrefsUpsert ==
    [][/\ ret'.op = "set_prefs" =>
             LET u == ret'.user_id
             IN /\ DOMAIN prefs' = DOMAIN prefs \cup {u}
                /\ prefs'[u].caregiver_contact = ret'.caregiver_contact
                /\ prefs'[u].escalate_after_minutes = ret'.escalate_after_minutes
                /\ \A v \in DOMAIN prefs \ {u} : prefs'[v] = prefs[v]
                /\ IF u \in DOMAIN state
                   THEN state' = state
                   ELSE /\ DOMAIN state' = DOMAIN state \cup {u}
                        /\ state'[u].last_prompt = None
                        /\ state'[u].last_response = None
                        /\ \A v \in DOMAIN state : state'[v] = state[v]
       /\ (ret'.op = "evaluate_escalation" /\ ret'.escalation_needed) =>
             LET u == ret'.user_id
             IN /\ escalations'[Len(escalations')][2] = prefs[u].caregiver_contact
                /\ ret'.now - state[u].last_prompt
                      >= prefs[u].escalate_after_minutes * TicksPerMinute]_vars

\* A second set_prefs for a user whose prompt and response were already
\* recorded, and are still there.
C16_Witness ==
    /\ ret.op = "set_prefs"
    /\ TimesLogged(ret.user_id, "checkin_set_prefs") = 2
    /\ state[ret.user_id].last_prompt # None
    /\ state[ret.user_id].last_response # None

\* An escalation after two set_prefs, sent to the stored contact.
C16_WitnessUsed ==
    /\ Evaluated
    /\ ret.escalation_needed
    /\ TimesLogged(ret.user_id, "checkin_set_prefs") = 2
    /\ escalations[Len(escalations)][2] = prefs[ret.user_id].caregiver_contact

\* An escalation was recorded for the user before.
EscalatedBefore(user_id) == \E i \in 1..Len(escalations) : escalations[i][1] = user_id

\* C17 - Escalated is re-derived, not stored: after an escalation for a
\* user, an evaluation finding a response later than the prompt returns
\* false, an evaluation of an unanswered prompt goes by the threshold counted
\* from the stored (latest) prompt, and the records appended before stay in
\* the list.
C17_EscalatedRederived ==
    [][(ret'.op = "evaluate_escalation" /\ EscalatedBefore(ret'.user_id)) =>
          LET st == state[ret'.user_id]
              m == prefs[ret'.user_id].escalate_after_minutes
          IN /\ (st.last_response # None /\ st.last_response > st.last_prompt)
                   => (~ ret'.escalation_needed /\ escalations' = escalations)
             /\ (st.last_response = None \/ st.last_response < st.last_prompt)
                   => (ret'.escalation_needed
                          <=> ret'.now - st.last_prompt >= m * TicksPerMinute)
             /\ SubSeq(escalations', 1, Len(escalations)) = escalations]_vars

\* After an escalation the prompt was answered; the evaluation past the
\* threshold returns false and the record is still there.
C17_Witness ==
    /\ Evaluated
    /\ ~ ret.escalation_needed
    /\ EscalatedBefore(ret.user_id)
    /\ state[ret.user_id].last_response > state[ret.user_id].last_prompt
    /\ LastLogged(ret.user_id, "checkin_escalation")
          < LastLogged(ret.user_id, "checkin_response_received")
    /\ ret.now - state[ret.user_id].last_prompt
          >= prefs[ret.user_id].escalate_after_minutes * TicksPerMinute

\* After an escalation a new prompt was sent; the evaluation is short of the
\* threshold counted from the new prompt, though not from the time of the
\* escalation's prompt, and returns false.
C17_WitnessNewPrompt ==
    /\ Evaluated
    /\ ~ ret.escalation_needed
    /\ EscalatedBefore(ret.user_id)
    /\ state[ret.user_id].last_response = None
    /\ LastLogged(ret.user_id, "checkin_escalation")
          < LastLogged(ret.user_id, "checkin_prompt_sent")
    /\ ret.now >= escalations[1][3]

\* C20 - evaluate_escalation returns escalation_needed = true if and only if
\* prefs exist, last_prompt is set, last_response is unset or strictly
\* earlier than last_prompt, and now - last_prompt is at least the threshold;
\* a response with the prompt's timestamp is an answer; the returned
\* last_prompt and last_response are the stored ones.
C20_EscalationIff ==
    Evaluated =>
       LET u == ret.user_id
           st == state[u]
       IN /\ ret.escalation_needed
                <=> (/\ u \in DOMAIN prefs
                     /\ st.last_prompt # None
                     /\ (st.last_response = None \/ st.last_response < st.last_prompt)
                     /\ ret.now - st.last_prompt
                           >= prefs[u].escalate_after_minutes * TicksPerMinute)
          /\ ret.last_prompt = st.last_prompt
          /\ ret.last_response = st.last_response

\* An evaluation past the threshold where the response carries the prompt's
\* own timestamp: no escalation.
C20_Witness ==
    /\ Evaluated
    /\ ret.user_id \in DOMAIN prefs
    /\ state[ret.user_id].last_prompt # None
    /\ state[ret.user_id].last_response = state[ret.user_id].last_prompt
    /\ ret.now - state[ret.user_id].last_prompt
          >= prefs[ret.user_id].escalate_after_minutes * TicksPerMinute
    /\ ~ ret.escalation_needed
    /\ ret.last_response = ret.last_prompt

\* An evaluation that escalated and returned the stored timestamps.
C20_WitnessTrue ==
    /\ Evaluated
    /\ ret.escalation_needed
    /\ ret.last_prompt = state[ret.user_id].last_prompt
    /\ ret.last_response # None

\* -------------------------------------------------- concurrent calls
\* In this step thread t returns from its call.
Returns(t) == Busy(t) /\ th'[t].pc = "idle"

\* The other of the two calls of the race has returned before: the result
\* of the latest return is its.
OtherReturned(t) ==
    /\ ret.op \in {"send_prompt", "record_response"} \ {th[t].op}
    /\ ret.user_id = th[t].user_id

\* C18 - No lost update: when send_prompt and record_response for one user
\* run concurrently (the user's CheckInState existing beforehand or not),
\* then once both calls have returned the user's one CheckInState holds the
\* prompt call's timestamp in last_prompt and the response call's timestamp
\* in last_response.
C18_NoLostUpdate ==
    [][\A t \in Threads :
          (Returns(t) /\ OtherReturned(t)) =>
             LET u == th[t].user_id
                 prompted == IF th[t].op = "send_prompt" THEN th[t].now ELSE ret.now
                 responded == IF th[t].op = "record_response" THEN th[t].now ELSE ret.now
             IN /\ u \in DOMAIN state'
                /\ state'[u] = [user_id |-> u, last_prompt |-> prompted,
                                last_response |-> responded]]_vars

\* Both calls have returned and no state existed before them: the audit log
\* holds their two entries only.  The response was logged first and the
\* prompt carries the earlier timestamp of the two.
C18_Witness ==
    /\ \A t \in Threads : ~ Busy(t)
    /\ Len(audit) = 2
    /\ audit[1].action = "checkin_response_received"
    /\ audit[2].action = "checkin_prompt_sent"
    /\ ret.op = "send_prompt"
    /\ state[ret.user_id].last_prompt = 0
    /\ state[ret.user_id].last_response = MaxTime

\* The two calls overlap: both are past their setdefault, on a state that
\* neither found, and neither has stored its timestamp yet.
C18_WitnessOverlap ==
    /\ th[1].pc = "send_prompt_53"
    /\ th[2].pc = "record_response_59"
    /\ audit = <<>>
    /\ state[th[1].user_id] = CheckInState(th[1].user_id)

\* The calls ran on a state that set_prefs had created, and both returned.
C18_WitnessExisting ==
    /\ \A t \in Threads : ~ Busy(t)
    /\ Len(audit) = 3
    /\ audit[1].action = "checkin_set_prefs"
    /\ state[audit[1].actor].last_prompt # None
    /\ state[audit[1].actor].last_response # None

\* The audit entries of the action for the user, and of one escalation
\* message.
AuditCount(user_id, action) ==
    Cardinality({i \in 1..Len(audit) : audit[i].actor = user_id /\ audit[i].action = action})

MsgLogged(msg) ==
    Cardinality({i \in 1..Len(audit) :
                    audit[i].action = "checkin_escalation" /\ audit[i].details = <<msg>>})

MsgStored(msg) == Cardinality({i \in 1..Len(escalations) : escalations[i] = msg})

\* The mutation that the i-th audit entry describes is in the stores.
Applied(i) ==
    LET e == audit[i]
    IN CASE e.action = "profile_create" -> e.actor \in DOMAIN profiles
         [] e.action = "consent_grant" ->
               AuditCount(e.actor, "consent_grant")
                  <= Cardinality({k \in 1..Len(consents) :
                                     /\ consents[k].user_id = e.actor
                                     /\ <<consents[k].viewer_role>> = e.details})
         [] e.action = "checkin_set_prefs" ->
               e.actor \in DOMAIN prefs /\ e.actor \in DOMAIN state
         [] e.action = "checkin_prompt_sent" ->
               e.actor \in DOMAIN state /\ state[e.actor].last_prompt # None
         [] e.action = "checkin_response_received" ->
               e.actor \in DOMAIN state /\ state[e.actor].last_response # None
         [] e.action = "checkin_escalation" ->
               MsgLogged(e.details[1]) <= MsgStored(e.details[1])
         [] OTHER -> TRUE

AuditBacked == \A i \in 1..Len(audit) : Applied(i)

\* C19 - Logged after the mutation: in every reachable state, the states
\* between the steps of interleaved calls included, each audit entry
\* (profile_create, consent_grant, checkin_set_prefs, checkin_prompt_sent,
\* checkin_response_received, checkin_escalation) describes a mutation that
\* is already in the store; and every step leaves the entries there were in
\* place, adding at most one at the end.
C19_LoggedAfterMutation ==
    [][/\ AuditBacked'
       /\ Len(audit') \in {Len(audit), Len(audit) + 1}
       /\ SubSeq(audit', 1, Len(audit)) = audit]_vars

\* Two calls in flight at once: one thread has stored its prompt and not
\* yet logged it, the other is logging the escalation it decided on, and
\* the log so far has the entries of the calls that returned.
C19_Witness ==
    /\ \E t \in Threads : th[t].pc = "send_prompt_54"
    /\ \E t \in Threads : th[t].pc = "evaluate_escalation_72"
    /\ Len(escalations) = 1
    /\ Len(audit) >= 2
    /\ AuditCount(escalations[1][1], "checkin_escalation") = 0

\* Every kind of entry of the two stores' writers is in the log.
C19_WitnessProfiles ==
    /\ \E i \in 1..Len(audit) : audit[i].action = "profile_create"
    /\ \E i \in 1..Len(audit) : audit[i].action = "consent_grant"
    /\ \E t \in Threads : th[t].pc = "set_prefs_47"
    /\ \E t \in Threads : th[t].pc = "record_response_60"

\* ------------------------------------------------------ frame effects
\* The timestamp of the given field that the user has, None without a state.
Stored(st, user_id, field) ==
    IF user_id \in DOMAIN st THEN st[user_id][field] ELSE None

\* No user other than user_id has a state added, removed or changed.
OthersKept(user_id) ==
    /\ DOMAIN state' \ {user_id} = DOMAIN state \ {user_id}
    /\ \A o \in DOMAIN state \ {user_id} : state'[o] = state[o]

\* C21 - Frame of the two recorders: send_prompt sets last_prompt of the
\* addressed user and leaves that user's last_response, the prefs and the
\* escalation list as they were; record_response sets last_response and
\* leaves last_prompt, the prefs and the escalation list as they were;
\* neither touches the state of another user.
C21_RecorderFrame ==
    [][/\ ret'.op = "send_prompt" =>
             /\ state'[ret'.user_id].last_prompt = ret'.now
             /\ state'[ret'.user_id].last_response
                   = Stored(state, ret'.user_id, "last_response")
             /\ prefs' = prefs /\ escalations' = escalations
             /\ OthersKept(ret'.user_id)
       /\ ret'.op = "record_response" =>
             /\ state'[ret'.user_id].last_response = ret'.now
             /\ state'[ret'.user_id].last_prompt
                   = Stored(state, ret'.user_id, "last_prompt")
             /\ prefs' = prefs /\ escalations' = escalations
             /\ OthersKept(ret'.user_id)]_vars

\* A prompt was just sent to a user who has a response on record, while
\* the other user has prefs and a prompt of their own: the response is
\* still there.
C21_Witness ==
    /\ ret.op = "send_prompt"
    /\ ret.now = MaxTime
    /\ state[ret.user_id].last_response = 0
    /\ \E o \in DOMAIN state \ {ret.user_id} :
          /\ o \in DOMAIN prefs
          /\ state[o].last_prompt # None

\* A prompt was just sent to one user after an escalation for the other.
C21_WitnessEscalated ==
    /\ ret.op = "send_prompt"
    /\ \E o \in DOMAIN state \ {ret.user_id} : EscalatedBefore(o)

\* A response was just recorded for a user with a prompt outstanding, the
\* other user having a state of their own.
C21_WitnessResponse ==
    /\ ret.op = "record_response"
    /\ ret.now = MaxTime
    /\ state[ret.user_id].last_prompt = 0
    /\ \E o \in DOMAIN state \ {ret.user_id} : state[o].last_prompt = MaxTime

\* C22 - Consistent snapshot: also with send_prompt and record_response
\* for the same user running concurrently, a status that evaluate_escalation
\* returns with escalation_needed = true has last_response unset or earlier
\* than last_prompt.
C22_ConsistentSnapshot ==
    (ret.op = "evaluate_escalation" /\ ret.escalation_needed) =>
       (ret.last_response = None \/ ret.last_response < ret.last_prompt)

\* ------------------------------------------------------------ dashboard
\* C23 - The dashboard's flag is elder-1's own: it reports
\* escalation_needed = true for elder-1 only if an evaluate_escalation call
\* for user_id elder-1 appended an escalation; escalations of other users,
\* whatever their caregiver_contact, never make it true.
C23_DashboardOwnEscalations ==
    (ret.op = "demo_caregiver_dashboard" /\ ret.escalation_needed) =>
       \E i \in 1..Len(escalations) : escalations[i][1] = elder_id

\* -------------------------------------------------------- safety filter
\* The text has nothing but whitespace in it.
Blank(text) == \A i \in 1..Len(text) : Char(text, i) \in Whitespace

\* Two characters that are the same letter in either case, or the same
\* character.
SameLetter(c, d) ==
    \/ c = d
    \/ \E k \in 1..Len(UpperCase) :
          {c, d} = {Char(UpperCase, k), Char(LowerCase, k)}

\* The phrase stands in the text at position i, in whatever case.
PhraseAt(text, phrase, i) ==
    /\ i + Len(phrase) - 1 <= Len(text)
    /\ \A k \in 1..Len(phrase) : SameLetter(Char(text, i + k - 1), Char(phrase, k))

HasEmergencyPhrase(text) ==
    \E n \in 1..Len(emergency_signs), i \in 1..Len(text) :
       PhraseAt(text, emergency_signs[n], i)

\* C24 - The safety filter comes before delegation: a non-blank user
\* message with an emergency phrase in it, in any case, gets the fixed
\* emergency reply and the generator is not called; a blank message gets
\* the fixed greeting and the generator is not called; the generator is
\* called only for a non-blank message without an emergency phrase, and
\* then with that message.
C24_FilterBeforeDelegation ==
    ret.op = "elder_advice_agent" =>
       /\ Blank(ret.user_message) =>
             ret.message = GreetingReply /\ ret.delegated = <<>>
       /\ (~ Blank(ret.user_message) /\ HasEmergencyPhrase(ret.user_message)) =>
             ret.message = EmergencyReply /\ ret.delegated = <<>>
       /\ ret.delegated # <<>> =>
             /\ ~ Blank(ret.user_message)
             /\ ~ HasEmergencyPhrase(ret.user_message)
             /\ ret.delegated = <<ret.user_message>>
             /\ ret.message \in LlmReplies

\* A message with a phrase in capitals inside a sentence got the emergency
\* reply without a call of the generator.
C24_Witness ==
    /\ ret.op = "elder_advice_agent"
    /\ ret.user_message = " I have CANNOT MOVE now!\n"
    /\ ret.message = EmergencyReply
    /\ ret.delegated = <<>>

\* A message of whitespace only got the greeting.
C24_WitnessBlank ==
    /\ ret.op = "elder_advice_agent"
    /\ ret.user_message = "\t\n"
    /\ ret.message = GreetingReply
    /\ ret.delegated = <<>>

\* A message close to a phrase, but without one, went to the generator.
C24_WitnessDelegated ==
    /\ ret.op = "elder_advice_agent"
    /\ ret.user_message = " I have chest  pain now!\n"
    /\ ret.delegated = <<ret.user_message>>
    /\ ret.message \in LlmReplies

\* Only the last user message counts: an earlier one with a phrase in it
\* does not stop the delegation of a later one without.
C24_WitnessLastMessage ==
    /\ ret.op = "elder_advice_agent"
    /\ Len(ret.messages) = 2
    /\ ret.messages[1].content = "CHEST PAIN"
    /\ ret.delegated = <<"a sore knee">>

====
